---- MODULE Spec2Model ----
(***************************************************************************)
(* AnimalShelter: the CRUD data-access object around one MongoDB           *)
(* collection, in its two variants:                                        *)
(*   "enhanced"  downloads/enhanced/CRUD_Python_Module_Enhanced.py         *)
(*   "baseline"  downloads/original/CRUD_Python_Module.py                  *)
(* One repository instance is constructed, used and closed.  The store     *)
(* (pymongo's MongoClient / Collection) is the external collaborator: the  *)
(* model keeps its collection as a sequence of documents in natural        *)
(* (insertion) order and lets every request to it either be served or      *)
(* raise a PyMongoError.                                                   *)
(*                                                                         *)
(* Python values: a dict is [type |-> "dict", val |-> f] with f a function *)
(* from keys to values, None is [type |-> "None"], anything else is        *)
(* [type |-> "other"].  Strings are TLA+ strings, with NoneStr for None /  *)
(* an unset environment variable.                                          *)
(* Inputs left out: read()'s projection is always None, queries are        *)
(* equality queries on at most one field, update documents are             *)
(* {"$set": {field: value}} documents, and callers do not supply their own *)
(* "_id".                                                                  *)
(***************************************************************************)
EXTENDS Integers, Sequences, FiniteSets, TLC

\* ---------------------------------------------------------------- bounds
\* Number of documents the store ever assigns an identity to.
MaxDocs == 2
\* Number of close() calls made on the instance.
MaxCloses == 2

\* ------------------------------------------------------------ value sets
Variants == {"enhanced", "baseline"}
Fields == {"a", "b"}
Values == {1, 2}
NoneStr == "<None>"
\* constructor arguments and os.getenv() results
ArgStrings == {NoneStr, "", "arg"}
EnvStrings == {NoneStr, "", "env"}

EmptyMap == [k \in {} |-> 0]
\* field "a" takes both values, field "b" one
ValuesOf(f) == IF f = "a" THEN Values ELSE {1}
Maps == UNION {{m \in [S -> Values] : \A k \in S : m[k] \in ValuesOf(k)} : S \in SUBSET Fields}
OneFieldMaps == {m \in Maps : Cardinality(DOMAIN m) = 1}
Dict(f) == [type |-> "dict", val |-> f]
PyNone == [type |-> "None", val |-> EmptyMap]
NotADict == [type |-> "other", val |-> EmptyMap]
\* {"$set": m}
SetDoc(m) == [k \in {"$set"} |-> m]

DataArgs == {Dict(m) : m \in Maps} \cup {NotADict, PyNone}
\* queries on at most one field
QueryArgs == {Dict(m) : m \in OneFieldMaps \cup {EmptyMap}} \cup {NotADict, PyNone}
\* update documents setting one field
UpdateArgs == {Dict(SetDoc(m)) : m \in OneFieldMaps} \cup {Dict(EmptyMap), NotADict}
SortPairs == Fields \X {1, -1}
SortArgs == {<<>>} \cup {<<p>> : p \in SortPairs}
              \cup {<<<<"a", 1>>, <<"b", -1>>>>, <<<<"b", -1>>, <<"a", 1>>>>}
LimitArgs == -1 .. MaxDocs

IsDict(x) == x.type = "dict"
\* Python truthiness of a dict / of a str-or-None
NonEmpty(x) == DOMAIN x.val # {}
Truthy(s) == s \notin {NoneStr, ""}

Min(x, y) == IF x < y THEN x ELSE y
Range(s) == {s[i] : i \in 1 .. Len(s)}

\* ------------------------------------------------------------------ store
\* A stored document: the inserted mapping plus the store-assigned "_id".
WithId(m, id) == [k \in DOMAIN m \cup {"_id"} |-> IF k = "_id" THEN id ELSE m[k]]
WithoutId(d) == [k \in DOMAIN d \ {"_id"} |-> d[k]]

\* find(query): equality match on every key of the query
Matches(d, q) == \A k \in DOMAIN q : k \in DOMAIN d /\ d[k] = q[k]

RECURSIVE Filter(_, _)
Filter(s, q) ==
  IF s = <<>> THEN <<>>
  ELSE IF Matches(Head(s), q) THEN <<Head(s)>> \o Filter(Tail(s), q)
       ELSE Filter(Tail(s), q)

RECURSIVE Reject(_, _)
Reject(s, q) ==
  IF s = <<>> THEN <<>>
  ELSE IF Matches(Head(s), q) THEN Reject(Tail(s), q)
       ELSE <<Head(s)>> \o Reject(Tail(s), q)

RECURSIVE RejectFirst(_, _)
RejectFirst(s, q) ==
  IF s = <<>> THEN <<>>
  ELSE IF Matches(Head(s), q) THEN Tail(s)
       ELSE <<Head(s)>> \o RejectFirst(Tail(s), q)

\* cursor.sort(S): a missing field compares as null, below every value
SortKey(d, f) == IF f \in DOMAIN d THEN d[f] ELSE 0

RECURSIVE Before(_, _, _)
\* d comes strictly before e under the sort list S
Before(d, e, S) ==
  IF S = <<>> THEN FALSE
  ELSE LET f == Head(S)[1]
           dir == Head(S)[2]
           x == SortKey(d, f) * dir
           y == SortKey(e, f) * dir
       IN  IF x < y THEN TRUE
           ELSE IF x > y THEN FALSE
           ELSE Before(d, e, Tail(S))

IsSorted(s, S) == \A i, j \in 1 .. Len(s) : i < j => ~Before(s[j], s[i], S)

\* the orders cursor.sort(S) may deliver: ties are in no promised order
Orderings(s, S) ==
  LET n == Len(s)
      Perms == {p \in [1 .. n -> 1 .. n] : \A i, j \in 1 .. n : p[i] = p[j] => i = j}
  IN  {t \in {[i \in 1 .. n |-> s[p[i]]] : p \in Perms} : IsSorted(t, S)}

\* cursor.limit(n)
Take(s, n) == SubSeq(s, 1, Min(n, Len(s)))


\* insert_one(m): the store assigns the identity and appends
InsertOne(c, m, id) == Append(c, WithId(m, id))

\* delete_one / delete_many
DeleteOne(c, q) == RejectFirst(c, q)
DeleteMany(c, q) == Reject(c, q)

\* {"$set": m} applied to one document
ApplySet(d, m) == [k \in DOMAIN d \cup DOMAIN m |-> IF k \in DOMAIN m THEN m[k] ELSE d[k]]

RECURSIVE UpdateFirst(_, _, _)
UpdateFirst(s, q, m) ==
  IF s = <<>> THEN <<>>
  ELSE IF Matches(Head(s), q) THEN <<ApplySet(Head(s), m)>> \o Tail(s)
       ELSE <<Head(s)>> \o UpdateFirst(Tail(s), q, m)

UpdateAll(s, q, m) ==
  [i \in 1 .. Len(s) |-> IF Matches(s[i], q) THEN ApplySet(s[i], m) ELSE s[i]]

\* documents whose content differs after the update (modified_count)
Modified(old, new) == Cardinality({i \in 1 .. Len(old) : old[i] # new[i]})

\* pymongo validates an update document before anything is sent
\* ("update cannot be empty"): the client raises ValueError itself
ClientRejectsUpdate(u) == DOMAIN u = {}

\* ------------------------------------------------------------- the class
VARIABLES
  variant,      \* which of the two modules is running
  constructed,  \* __init__ has returned an instance
  client,       \* self._client: "None" or "MongoClient"
  releases,     \* calls of self._client.close() received by the handle
  closeCalls,   \* calls of AnimalShelter.close()
  coll,         \* the collection, in natural order
  nextId,       \* next identity the store assigns
  last,         \* the last call: op, args, outcome, ret, storeFailed
  sent,         \* requests the last call sent to the store
  before,       \* the collection as it was before the last call
  raw_results,  \* read(): list(cursor)
  created       \* the document of a create() that returned True, until the
                \* next call that is not a read

vars == <<variant, constructed, client, releases, closeCalls, coll, nextId,
          last, sent, before, raw_results, created>>

\* mutant: the environment value wins whenever the variable is set
ResolveCredential_ifSet(arg, env) == IF env # NoneStr THEN env ELSE arg

\* __init__, enhanced: the environment value wins when set and non-empty
ResolveCredential(arg, env) == IF Truthy(env) THEN env ELSE arg

Resolved(v, arg, env) == IF v = "enhanced" THEN ResolveCredential(arg, env) ELSE arg

\* mutant: only the user is checked
CredentialsGiven_userOnly(user, password) == Truthy(user)

\* if not user or not password: raise ValueError
CredentialsGiven(user, password) == Truthy(user) /\ Truthy(password)

\* mutant: the collection property without its guard
ClientInitialized_unguarded(v, c) == TRUE

\* enhanced: the collection property raises RuntimeError when _client is None;
\* baseline: self.collection is a plain attribute set by __init__
ClientInitialized(v, c) == IF v = "enhanced" THEN c # "None" ELSE TRUE

\* mutant: documents returned as they are
clean_results_keepId(docs) == docs

\* _clean_results
clean_results(docs) == [i \in 1 .. Len(docs) |-> WithoutId(docs[i])]

Results(v, raw) == IF v = "enhanced" THEN clean_results(raw) ELSE raw

\* mutant: the enhanced module swallowing the error as the baseline does
OnStoreError_soft(v) == "return"

\* except PyMongoError: enhanced logs and re-raises, baseline prints and
\* returns False, [] or 0 (NoValue below)
OnStoreError(v) == IF v = "enhanced" THEN "PyMongoError" ELSE "return"

\* argument checks
ValidCreate(data) == IsDict(data) /\ NonEmpty(data)

ReadQuery(query) == IF query.type = "None" THEN Dict(EmptyMap) ELSE query

ValidRead(query) == IsDict(ReadQuery(query))

ValidUpdate(v, query, update_doc) ==
  IF v = "enhanced"
  THEN IsDict(query) /\ NonEmpty(query) /\ IsDict(update_doc) /\ NonEmpty(update_doc)
  ELSE IsDict(query) /\ IsDict(update_doc)

\* mutant: any mapping accepted by delete()
ValidDelete_anyDict(v, query) == IsDict(query)

ValidDelete(v, query) ==
  IF v = "enhanced" THEN IsDict(query) /\ NonEmpty(query) ELSE IsDict(query)

\* bool(result.acknowledged and result.inserted_id)
InsertSuccess(acknowledged, inserted_id) == acknowledged /\ inserted_id # 0

\* mutant: limit applied before the sort
Cursor_limitFirst(c, q, sort, limit) ==
  LET found == Filter(c, q)
      cut == IF limit > 0 THEN Take(found, limit) ELSE found
  IN  IF sort # <<>> THEN Orderings(cut, sort) ELSE {cut}

\* read(): find, then sort if sort, then limit if limit > 0
Cursor(c, q, sort, limit) ==
  LET found == Filter(c, q)
      sorted == IF sort # <<>> THEN Orderings(found, sort) ELSE {found}
  IN  {IF limit > 0 THEN Take(o, limit) ELSE o : o \in sorted}

\* mutant: delete_many whatever many is
DeleteResult_alwaysMany(c, q, many) == DeleteMany(c, q)

\* delete(): delete_many if many else delete_one
DeleteResult(c, q, many) == IF many THEN DeleteMany(c, q) ELSE DeleteOne(c, q)

\* int(result.deleted_count or 0)
DeletedCount(old, new) == Len(old) - Len(new)

\* update(): update_many if many else update_one
UpdateResult(c, q, m, many) == IF many THEN UpdateAll(c, q, m) ELSE UpdateFirst(c, q, m)

NoArgs == [none |-> TRUE]

\* what a call returns: create a bool, update and delete an int, read a list;
\* the parts a call does not return stay False, 0 and []
NoValue == [ok |-> FALSE, count |-> 0, docs |-> <<>>]
BoolValue(b) == [ok |-> b, count |-> 0, docs |-> <<>>]
IntValue(n) == [ok |-> FALSE, count |-> n, docs |-> <<>>]
ListValue(l) == [ok |-> FALSE, count |-> 0, docs |-> l]

\* no call is in progress or waiting for the caller to take its outcome
Idle == [op |-> "idle", args |-> NoArgs, outcome |-> "return", ret |-> NoValue,
         storeFailed |-> FALSE]

Init ==
  /\ variant \in Variants
  /\ constructed = FALSE
  /\ client = "None"
  /\ releases = 0
  /\ closeCalls = 0
  /\ coll = <<>>
  /\ nextId = 1
  /\ last = Idle
  /\ sent = <<>>
  /\ before = <<>>
  /\ raw_results = <<>>
  /\ created = <<>>

\* what every call records
Record(op, args, outcome, ret, failed, reqs, raw) ==
  /\ last' = [op |-> op, args |-> args, outcome |-> outcome, ret |-> ret,
              storeFailed |-> failed]
  /\ sent' = reqs
  /\ raw_results' = raw
  /\ before' = coll

Raise(op, args, exc) == Record(op, args, exc, NoValue, FALSE, <<>>, <<>>)

\* AnimalShelter(user, password): eu, ep are what os.getenv returns; up says
\* whether the ping succeeds
Construct ==
  /\ last.op = "idle"
  /\ ~constructed
  /\ \E user \in ArgStrings, password \in ArgStrings,
        eu \in EnvStrings, ep \in EnvStrings, up \in BOOLEAN :
       LET u == Resolved(variant, user, eu)
           p == Resolved(variant, password, ep)
           args == [user |-> user, password |-> password, env_user |-> eu,
                    env_pass |-> ep]
           reqs == <<[kind |-> "MongoClient", username |-> u, password |-> p],
                     [kind |-> "ping"]>>
       IN  IF ~CredentialsGiven(u, p)
           THEN /\ Raise("init", args, "ValueError")
                /\ UNCHANGED <<constructed, client>>
           ELSE IF up
           THEN /\ Record("init", args, "return", NoValue, FALSE, reqs, <<>>)
                /\ constructed' = TRUE
                /\ client' = "MongoClient"
           ELSE /\ Record("init", args, "PyMongoError", NoValue, TRUE, reqs, <<>>)
                /\ UNCHANGED <<constructed, client>>
  /\ created' = <<>>
  /\ UNCHANGED <<variant, releases, closeCalls, coll, nextId>>

Create ==
  /\ last.op = "idle"
  /\ constructed
  /\ \E data \in DataArgs, fail \in BOOLEAN :
       LET args == [data |-> data]
           reqs == <<[kind |-> "insert_one", doc |-> data.val]>>
       IN  IF ~ValidCreate(data)
           THEN /\ Raise("create", args, "ValueError")
                /\ UNCHANGED <<coll, nextId>>
                /\ created' = <<>>
           ELSE IF ~ClientInitialized(variant, client)
           THEN /\ Raise("create", args, "RuntimeError")
                /\ UNCHANGED <<coll, nextId>>
                /\ created' = <<>>
           ELSE IF fail
           THEN /\ Record("create", args, OnStoreError(variant), NoValue, TRUE,
                       reqs, <<>>)
                /\ UNCHANGED <<coll, nextId>>
                /\ created' = <<>>
           ELSE /\ nextId <= MaxDocs
                /\ Record("create", args, "return", BoolValue(InsertSuccess(TRUE, nextId)),
                          FALSE, reqs, <<>>)
                /\ coll' = InsertOne(coll, data.val, nextId)
                /\ nextId' = nextId + 1
                /\ created' = IF InsertSuccess(TRUE, nextId)
                              THEN <<WithId(data.val, nextId)>> ELSE <<>>
  /\ UNCHANGED <<variant, constructed, client, releases, closeCalls>>

Read ==
  /\ last.op = "idle"
  /\ constructed
  /\ \E query \in QueryArgs, limit \in LimitArgs, sort \in SortArgs, fail \in BOOLEAN :
       LET args == [query |-> query, limit |-> limit, sort |-> sort]
           q == ReadQuery(query)
           reqs == <<[kind |-> "find", query |-> q.val, sort |-> sort,
                      limit |-> IF limit > 0 THEN limit ELSE 0]>>
       IN  IF ~ValidRead(query)
           THEN Raise("read", args, "ValueError")
           ELSE IF ~ClientInitialized(variant, client)
           THEN Raise("read", args, "RuntimeError")
           ELSE IF fail
           THEN Record("read", args, OnStoreError(variant), NoValue, TRUE,
                       reqs, <<>>)
           ELSE \E raw \in Cursor(coll, q.val, sort, limit) :
                  Record("read", args, "return", ListValue(Results(variant, raw)), FALSE,
                         reqs, raw)
  /\ UNCHANGED <<variant, constructed, client, releases, closeCalls, coll, nextId,
                 created>>


Update ==
  /\ last.op = "idle"
  /\ constructed
  /\ \E query \in QueryArgs, update_doc \in UpdateArgs,
        many \in BOOLEAN, upsert \in BOOLEAN, fail \in BOOLEAN :
       LET args == [query |-> query, update_doc |-> update_doc, many |-> many,
                    upsert |-> upsert]
           q == query.val
           m == update_doc.val["$set"]
           reqs == <<[kind |-> IF many THEN "update_many" ELSE "update_one",
                      query |-> q, update |-> update_doc.val, upsert |-> upsert]>>
           new == UpdateResult(coll, q, m, many)
       IN  IF ~ValidUpdate(variant, query, update_doc)
           THEN /\ Raise("update", args, "ValueError")
                /\ UNCHANGED <<coll, nextId>>
           ELSE IF ~ClientInitialized(variant, client)
           THEN /\ Raise("update", args, "RuntimeError")
                /\ UNCHANGED <<coll, nextId>>
           ELSE IF ClientRejectsUpdate(update_doc.val)
           THEN /\ Raise("update", args, "ValueError")
                /\ UNCHANGED <<coll, nextId>>
           ELSE IF fail
           THEN /\ Record("update", args, OnStoreError(variant), NoValue, TRUE,
                       reqs, <<>>)
                /\ UNCHANGED <<coll, nextId>>
           ELSE IF upsert /\ Filter(coll, q) = <<>>
           THEN \* nothing matches: the store inserts the query's fields with
                \* the update applied; no document counts as modified
                /\ nextId <= MaxDocs
                /\ Record("update", args, "return", IntValue(0), FALSE, reqs, <<>>)
                /\ coll' = InsertOne(coll, ApplySet(q, m), nextId)
                /\ nextId' = nextId + 1
           ELSE /\ Record("update", args, "return", IntValue(Modified(coll, new)), FALSE,
                          reqs, <<>>)
                /\ coll' = new
                /\ UNCHANGED nextId
  /\ created' = <<>>
  /\ UNCHANGED <<variant, constructed, client, releases, closeCalls>>

Delete ==
  /\ last.op = "idle"
  /\ constructed
  /\ \E query \in QueryArgs, many \in BOOLEAN, fail \in BOOLEAN :
       LET args == [query |-> query, many |-> many]
           q == query.val
           reqs == <<[kind |-> IF many THEN "delete_many" ELSE "delete_one",
                      query |-> q]>>
           new == DeleteResult(coll, q, many)
       IN  IF ~ValidDelete(variant, query)
           THEN /\ Raise("delete", args, "ValueError")
                /\ UNCHANGED coll
           ELSE IF ~ClientInitialized(variant, client)
           THEN /\ Raise("delete", args, "RuntimeError")
                /\ UNCHANGED coll
           ELSE IF fail
           THEN /\ Record("delete", args, OnStoreError(variant), NoValue, TRUE,
                       reqs, <<>>)
                /\ UNCHANGED coll
           ELSE /\ Record("delete", args, "return", IntValue(DeletedCount(coll, new)), FALSE,
                          reqs, <<>>)
                /\ coll' = new
  /\ created' = <<>>
  /\ UNCHANGED <<variant, constructed, client, releases, closeCalls, nextId>>

\* enhanced: release only if _client is not None, then forget the client;
\* baseline: always call self._client.close(), swallowing any exception
Releases(v, c) == IF v = "enhanced" THEN c # "None" ELSE TRUE

Close ==
  /\ last.op = "idle"
  /\ constructed
  /\ closeCalls < MaxCloses
  /\ closeCalls' = closeCalls + 1
  /\ IF Releases(variant, client)
     THEN /\ Record("close", NoArgs, "return", NoValue, FALSE, <<[kind |-> "close"]>>, <<>>)
          /\ releases' = releases + 1
          /\ client' = IF variant = "enhanced" THEN "None" ELSE client
     ELSE /\ Record("close", NoArgs, "return", NoValue, FALSE, <<>>, <<>>)
          /\ UNCHANGED <<releases, client>>
  /\ created' = <<>>
  /\ UNCHANGED <<variant, constructed, coll, nextId>>

\* the caller takes the outcome of the call; the next call can be made
Return ==
  /\ last.op # "idle"
  /\ last' = Idle
  /\ sent' = <<>>
  /\ raw_results' = <<>>
  /\ before' = coll
  /\ UNCHANGED <<variant, constructed, client, releases, closeCalls, coll, nextId,
                 created>>

Next == Construct \/ Create \/ Read \/ Update \/ Delete \/ Close \/ Return

Spec == Init /\ [][Next]_vars

TypeOK ==
  /\ variant \in Variants
  /\ constructed \in BOOLEAN
  /\ client \in {"None", "MongoClient"}
  /\ releases \in 0 .. MaxCloses
  /\ closeCalls \in 0 .. MaxCloses
  /\ Len(coll) <= MaxDocs
  /\ nextId \in 1 .. MaxDocs + 1


\* ------------------------------------------------------------- properties
CRUD == {"create", "read", "update", "delete"}

\* a non-empty mapping, as the specification of the class words it
NonEmptyMapping(x) == x.type = "dict" /\ DOMAIN x.val # {}

\* the last call's arguments are what the enhanced module accepts
AcceptedByEnhanced ==
  \/ last.op = "create" /\ NonEmptyMapping(last.args.data)
  \/ last.op = "read" /\ last.args.query.type \in {"dict", "None"}
  \/ last.op = "update" /\ NonEmptyMapping(last.args.query)
                        /\ NonEmptyMapping(last.args.update_doc)
  \/ last.op = "delete" /\ NonEmptyMapping(last.args.query)

Ids(s) == {s[i]["_id"] : i \in 1 .. Len(s)}

RECURSIVE Keep(_, _)
\* the documents of s whose identity is in I, in the order of s
Keep(s, I) ==
  IF s = <<>> THEN <<>>
  ELSE IF Head(s)["_id"] \in I THEN <<Head(s)>> \o Keep(Tail(s), I)
       ELSE Keep(Tail(s), I)

MatchingIn(s, q) == {d \in Range(s) : Matches(d, q)}

\* C1: in both variants, however often close() is called on a constructed
\* repository, it raises nothing and the connection handle receives exactly
\* one release request: from the second close() on, nothing is sent.
C1_CloseReleasesOnce ==
  (last.op = "close" /\ closeCalls >= 2) =>
     /\ last.outcome = "return"
     /\ releases = 1
     /\ sent = <<>>

\* C2: enhanced variant: once close() has been called, every create, read,
\* update or delete with accepted arguments fails with the "not initialized"
\* RuntimeError, sends nothing to the store and leaves the collection as it was.
C2_ClosedInstanceRefuses ==
  (variant = "enhanced" /\ closeCalls > 0 /\ last.op \in CRUD /\ AcceptedByEnhanced) =>
     /\ last.outcome = "RuntimeError"
     /\ sent = <<>>
     /\ coll = before

C2_Witness ==
  /\ variant = "enhanced"
  /\ closeCalls = 2
  /\ last.op = "delete"
  /\ last.args.many
  /\ NonEmptyMapping(last.args.query)
  /\ MatchingIn(coll, last.args.query.val) # {}
  /\ last.outcome = "RuntimeError"

\* the credential __init__ must end up with: the enhanced module prefers a
\* set, non-empty environment variable, the baseline module has no override
Effective(arg, env) ==
  IF variant = "enhanced" /\ env # NoneStr /\ env # "" THEN env ELSE arg

\* C3: construction fails with ValueError whenever the user or the password
\* resolves to empty (enhanced: after the environment override); then nothing
\* is sent to the store (no client, no ping) and no instance results.
C3_EmptyCredentialRejected ==
  (last.op = "init"
     /\ (Effective(last.args.user, last.args.env_user) \in {NoneStr, ""}
         \/ Effective(last.args.password, last.args.env_pass) \in {NoneStr, ""})) =>
     /\ last.outcome = "ValueError"
     /\ sent = <<>>
     /\ ~constructed
     /\ client = "None"

C3_Witness ==
  /\ last.op = "init"
  /\ last.args.user = "arg"
  /\ last.args.password = ""
  /\ last.args.env_pass \in {NoneStr, ""}
  /\ last.outcome = "ValueError"
  /\ sent = <<>>

\* C4: in both variants update() raises ValueError whenever query or
\* update_doc is empty or not a mapping, whatever many and upsert are; then no
\* update request is sent and the collection is unchanged.
C4_UpdateRejectsEmptyOrNonMapping ==
  (last.op = "update"
     /\ (~NonEmptyMapping(last.args.query) \/ ~NonEmptyMapping(last.args.update_doc))) =>
     /\ last.outcome = "ValueError"
     /\ sent = <<>>
     /\ coll = before

\* C5: when delete() returns and the store served the request: only documents
\* matching the query are gone and the rest keep their order, many=False
\* removes at most one document, many=True leaves no matching document, and
\* the returned count is the number of documents removed.
C5_DeleteRemovesWhatItCounts ==
  (last.op = "delete" /\ last.outcome = "return") =>
     LET q == last.args.query.val
         removed == Ids(before) \ Ids(coll)
     IN  /\ coll = Keep(before, Ids(coll))
         /\ \A d \in Range(before) : d["_id"] \in removed => Matches(d, q)
         /\ ~last.args.many => Cardinality(removed) <= 1
         /\ (last.args.many /\ ~last.storeFailed) => MatchingIn(coll, q) = {}
         /\ last.ret.count = Cardinality(removed)

\* many=False with two matching documents: one of them is left
C5_Witness ==
  /\ last.op = "delete"
  /\ last.outcome = "return"
  /\ ~last.args.many
  /\ Cardinality(MatchingIn(before, last.args.query.val)) = 2
  /\ Cardinality(MatchingIn(coll, last.args.query.val)) = 1
  /\ last.ret.count = 1


\* the last call is a read whose query names one field, with the value the
\* just-created document has there and no other stored document has
ReadByUniqueFieldOfCreated ==
  /\ created # <<>>
  /\ last.op = "read"
  /\ last.args.query.type = "dict"
  /\ Cardinality(DOMAIN last.args.query.val) = 1
  /\ MatchingIn(coll, last.args.query.val) = {created[1]}

\* C6: round trip.  After create(D) has returned True, a read by a field
\* unique to D that the store serves returns exactly one document; it equals
\* D field for field apart from the identity field, which the enhanced variant
\* never returns and the baseline variant returns as the store assigned it.
C6_RoundTrip ==
  (ReadByUniqueFieldOfCreated /\ ~last.storeFailed) =>
     /\ last.outcome = "return"
     /\ Len(last.ret.docs) = 1
     /\ WithoutId(last.ret.docs[1]) = WithoutId(created[1])
     /\ variant = "enhanced" => "_id" \notin DOMAIN last.ret.docs[1]
     /\ variant = "baseline" =>
          "_id" \in DOMAIN last.ret.docs[1] /\ last.ret.docs[1]["_id"] = created[1]["_id"]

\* enhanced, two stored documents, the created one has two fields
C6_Witness ==
  /\ ReadByUniqueFieldOfCreated
  /\ ~last.storeFailed
  /\ variant = "enhanced"
  /\ Len(coll) = 2
  /\ Cardinality(DOMAIN created[1]) = 3
  /\ Len(last.ret.docs) = 1

\* C7: enhanced variant: a store failure during create, read, update or
\* delete is raised as PyMongoError, never turned into a return value; a
\* returned empty list or zero is what the store reported (nothing matched,
\* nothing was modified or removed).
C7_FailFast ==
  (variant = "enhanced" /\ last.op \in CRUD) =>
     /\ last.storeFailed => last.outcome = "PyMongoError"
     /\ last.outcome = "return" =>
          /\ ~last.storeFailed
          /\ sent # <<>>
          /\ (last.op = "read" /\ last.ret.docs = <<>>) =>
               MatchingIn(before, ReadQuery(last.args.query).val) = {}
          /\ (last.op = "delete" /\ last.ret.count = 0) =>
               MatchingIn(before, last.args.query.val) = {}
          /\ (last.op = "update" /\ last.ret.count = 0) =>
               \A i \in 1 .. Len(before) : coll[i] = before[i]

\* a failing delete whose query matches a stored document
C7_Witness ==
  /\ variant = "enhanced"
  /\ last.op = "delete"
  /\ last.storeFailed
  /\ MatchingIn(coll, last.args.query.val) # {}
  /\ last.outcome = "PyMongoError"

\* C8: a served read returns the matching documents ordered by the sort list
\* and then cut to the first n for a limit n > 0: no document left out sorts
\* before a returned one; without a sort list the order is the collection's.
\* With limit 0 every matching document is returned, with no query every
\* document.  The enhanced variant strips "_id" from what it returns, and a
\* read never changes the collection.
C8_SortThenLimit ==
  (last.op = "read") =>
     /\ coll = before
     /\ (last.outcome = "return" /\ ~last.storeFailed /\ last.args.limit >= 0) =>
          LET q == ReadQuery(last.args.query).val
              S == last.args.sort
              n == last.args.limit
              found == Filter(before, q)
              raw == raw_results
              rest == {d \in Range(found) : d["_id"] \notin Ids(raw)}
          IN  /\ Range(raw) \subseteq Range(found)
              /\ Cardinality(Ids(raw)) = Len(raw)
              /\ Len(raw) = IF n > 0 /\ n < Len(found) THEN n ELSE Len(found)
              /\ IsSorted(raw, S)
              /\ \A x \in Range(raw), y \in rest : ~Before(y, x, S)
              /\ S = <<>> => raw = SubSeq(found, 1, Len(raw))
              /\ last.args.query.type = "None" /\ n = 0 => Len(raw) = Len(before)
              /\ last.ret.docs = IF variant = "enhanced"
                            THEN [i \in 1 .. Len(raw) |-> WithoutId(raw[i])]
                            ELSE raw

\* two documents match, stored in the opposite of the requested order, and
\* limit 1 returns the one that sorts first
C8_Witness ==
  /\ last.op = "read"
  /\ last.outcome = "return"
  /\ ~last.storeFailed
  /\ last.args.limit = 1
  /\ last.args.sort # <<>>
  /\ Len(Filter(before, ReadQuery(last.args.query).val)) = 2
  /\ Len(raw_results) = 1
  /\ raw_results[1] = before[2]
  /\ Before(before[2], before[1], last.args.sort)

\* C9: enhanced variant: delete({}, many) raises ValueError for either many,
\* sends no delete request and removes nothing.
C9_EmptyDeleteRejected ==
  (variant = "enhanced" /\ last.op = "delete" /\ last.args.query.type = "dict"
     /\ DOMAIN last.args.query.val = {}) =>
     /\ last.outcome = "ValueError"
     /\ sent = <<>>
     /\ coll = before

C9_Witness ==
  /\ variant = "enhanced"
  /\ client = "MongoClient"
  /\ last.op = "delete"
  /\ last.args.many
  /\ last.args.query.type = "dict"
  /\ DOMAIN last.args.query.val = {}
  /\ Len(coll) = 2
  /\ last.outcome = "ValueError"

\* what the override rule gives for one credential
Overridden(arg, env) == IF env \in {NoneStr, ""} THEN arg ELSE env

====
